---- MODULE Spec2Model ----
(***************************************************************************)
(* A model of src/app.py: the password gate (access_gate), the grading     *)
(* endpoint (grade) with its per-session rubric cache, the two oracle      *)
(* calls (parse_rubric_to_json, grade_with_rubric_json) and the feedback   *)
(* post-processing (extract_scores, extract_student_summary,               *)
(* strip_student_summary).                                                 *)
(*                                                                         *)
(* A Python str is a sequence of tokens.  A token is one character, or a   *)
(* literal of the source that cannot overlap itself ("Score:",             *)
(* "Student Summary:", the fixed messages).  None is the empty sequence    *)
(* <<>> of an optional value and a present value v is <<v>>.               *)
(***************************************************************************)
EXTENDS Integers, Sequences, FiniteSets, TLC

VARIABLES session, req, resp, oracle_calls, files_read, supplied, pure

vars == <<session, req, resp, oracle_calls, files_read, supplied, pure>>

webvars == <<session, req, resp, oracle_calls, files_read, supplied>>

----------------------------------------------------------------------------
(* Strings *)

\* The characters str.strip() removes and the regex class \s matches.
WS == {" ", "\n"}

Digits == {"0", "1", "2", "3", "4", "5", "6", "7", "8", "9"}

DigitVal(c) ==
  CASE c = "0" -> 0 [] c = "1" -> 1 [] c = "2" -> 2 [] c = "3" -> 3
    [] c = "4" -> 4 [] c = "5" -> 5 [] c = "6" -> 6 [] c = "7" -> 7
    [] c = "8" -> 8 [] c = "9" -> 9

RECURSIVE LStrip(_)
LStrip(s) == IF s # <<>> /\ Head(s) \in WS THEN LStrip(Tail(s)) ELSE s

RECURSIVE RStrip(_)
RStrip(s) ==
  IF s # <<>> /\ s[Len(s)] \in WS THEN RStrip(SubSeq(s, 1, Len(s) - 1)) ELSE s

\* str.strip()
Strip(s) == RStrip(LStrip(s))

\* s[:n]
Take(s, n) == SubSeq(s, 1, IF Len(s) < n THEN Len(s) ELSE n)

\* s[n:]
Drop(s, n) == SubSeq(s, n + 1, Len(s))

\* str.find(marker) for a one-token marker: the first index (1-based), 0 for -1.
Find(s, marker) ==
  IF \E i \in 1..Len(s) : s[i] = marker
  THEN CHOOSE i \in 1..Len(s) : s[i] = marker /\ \A j \in 1..(i - 1) : s[j] # marker
  ELSE 0

\* bool(x) of a str
Truthy(s) == s # <<>>

None == <<>>

Some(v) == <<v>>

----------------------------------------------------------------------------
(* Configuration *)

ACCESS_PASSWORD == <<"teacheraccess">>

Sessions == {"s1"}

----------------------------------------------------------------------------
(* read_file_to_text *)

NoFile == [present |-> FALSE, filename |-> <<>>, text |-> <<>>, corrupt |-> FALSE]

Lower(c) ==
  CASE c = ".CSV" -> ".csv" [] c = ".TXT" -> ".txt" [] OTHER -> c

\* filename.endswith(ext) after .lower(); an extension is one token.
EndsWith(filename, exts) ==
  filename # <<>> /\ Lower(filename[Len(filename)]) \in exts

TextExts == {".txt", ".py", ".java", ".cpp", ".c", ".md", ".html", ".json"}

ParsedExts == {".csv", ".xlsx", ".docx", ".pdf"}

\* f.text is what the decoder of f's format yields from its bytes and f.corrupt
\* says that the container cannot be parsed.  The text branches decode with
\* errors="ignore" and never raise; pd.read_csv, pd.read_excel, Document and
\* PdfReader raise on a corrupt container.
read_file_to_text(f) ==
  IF EndsWith(f.filename, TextExts) THEN [raised |-> FALSE, text |-> f.text]
  ELSE IF EndsWith(f.filename, ParsedExts)
       THEN IF f.corrupt THEN [raised |-> TRUE, text |-> <<>>]
            ELSE [raised |-> FALSE, text |-> f.text]
       ELSE [raised |-> FALSE, text |-> f.text]

----------------------------------------------------------------------------
(* Feedback post-processing *)

SCORE == "Score:"

MARKER == "Student Summary:"

FALLBACK_SUMMARY ==
  <<"You completed meaningful work and demonstrated growing skill. Keep practicing and refining your logic, and use this feedback as a guide for your next draft.">>

RECURSIVE SkipWs(_, _)
\* \s* from position i: the first position that holds no whitespace.
SkipWs(t, i) == IF i <= Len(t) /\ t[i] \in WS THEN SkipWs(t, i + 1) ELSE i

RECURSIVE SkipDigits(_, _)
\* \d+ from position i (greedy): the first position that holds no digit.
SkipDigits(t, i) == IF i <= Len(t) /\ t[i] \in Digits THEN SkipDigits(t, i + 1) ELSE i

RECURSIVE ToInt(_)
\* int(s) of a digit string
ToInt(s) ==
  IF s = <<>> THEN 0 ELSE 10 * ToInt(SubSeq(s, 1, Len(s) - 1)) + DigitVal(s[Len(s)])

\* MatchAt with the pattern Score:\s*(\d+)/(\d+): no whitespace around the slash.
MatchAt_TightSlash(t, i) ==
  LET a1 == SkipWs(t, i + 1)
      a2 == SkipDigits(t, a1)
      b2 == SkipDigits(t, a2 + 1)
  IN  IF /\ i <= Len(t) /\ t[i] = SCORE
         /\ a2 > a1
         /\ a2 <= Len(t) /\ t[a2] = "/"
         /\ b2 > a2 + 1
      THEN [ok |-> TRUE, earned |-> ToInt(SubSeq(t, a1, a2 - 1)),
            possible |-> ToInt(SubSeq(t, a2 + 1, b2 - 1)), next |-> b2]
      ELSE [ok |-> FALSE, earned |-> 0, possible |-> 0, next |-> i + 1]

\* The regex Score:\s*(\d+)\s*/\s*(\d+) tried at position i.  A shorter first
\* group is followed by a digit, which is neither \s nor "/", so backtracking
\* into \d+ never finds a match the greedy attempt misses.
MatchAt(t, i) ==
  LET a1 == SkipWs(t, i + 1)
      a2 == SkipDigits(t, a1)
      sl == SkipWs(t, a2)
      b1 == SkipWs(t, sl + 1)
      b2 == SkipDigits(t, b1)
  IN  IF /\ i <= Len(t) /\ t[i] = SCORE
         /\ a2 > a1
         /\ sl <= Len(t) /\ t[sl] = "/"
         /\ b2 > b1
      THEN [ok |-> TRUE, earned |-> ToInt(SubSeq(t, a1, a2 - 1)),
            possible |-> ToInt(SubSeq(t, b1, b2 - 1)), next |-> b2]
      ELSE [ok |-> FALSE, earned |-> 0, possible |-> 0, next |-> i + 1]

RECURSIVE FindAll(_, _)
\* re.findall: leftmost, non-overlapping matches in order.
FindAll(t, i) ==
  IF i > Len(t) THEN <<>>
  ELSE LET m == MatchAt(t, i)
       IN  IF m.ok THEN <<m>> \o FindAll(t, m.next) ELSE FindAll(t, i + 1)

RECURSIVE SumField(_, _)
SumField(ms, which) ==
  IF ms = <<>> THEN 0
  ELSE (IF which = "earned" THEN Head(ms).earned ELSE Head(ms).possible)
       + SumField(Tail(ms), which)

extract_scores(feedback_text) ==
  LET matches == FindAll(feedback_text, 1)
  IN  [earned |-> SumField(matches, "earned"), possible |-> SumField(matches, "possible")]

\* extract_student_summary slicing at idx instead of idx + len(marker).
extract_student_summary_FromMarker(feedback_text) ==
  LET idx == Find(feedback_text, MARKER)
  IN  IF idx = 0 THEN FALLBACK_SUMMARY ELSE Strip(Drop(feedback_text, idx - 1))

extract_student_summary(feedback_text) ==
  LET idx == Find(feedback_text, MARKER)
  IN  IF idx = 0 THEN FALLBACK_SUMMARY ELSE Strip(Drop(feedback_text, idx))

strip_student_summary(feedback_text) ==
  LET idx == Find(feedback_text, MARKER)
  IN  IF idx = 0 THEN Strip(feedback_text) ELSE Strip(SubSeq(feedback_text, 1, idx - 1))

----------------------------------------------------------------------------
(* The oracle calls *)

FALLBACK_POINTS == 100

FALLBACK_MAX_CHARS == 1000

\* The except branch of parse_rubric_to_json.
FallbackRubric(rubric_text) ==
  << [criterion |-> "Overall Rubric",
      description |-> "Entire rubric treated as one criterion.",
      points |-> FALLBACK_POINTS,
      requirements |-> <<Take(Strip(rubric_text), FALLBACK_MAX_CHARS)>>] >>

Clarity ==
  [criterion |-> "Clarity", description |-> "", points |-> 10,
   requirements |-> << <<"clear writing">> >>]

Correctness ==
  [criterion |-> "Correctness", description |-> "", points |-> 20,
   requirements |-> << <<"correct logic">> >>]

\* What client.responses.create does in parse_rubric_to_json:
\*   call_error      the call raises;
\*   bad_shape       response.output[0].content[0].text raises;
\*   malformed_json  json.loads(raw_text) raises;
\*   json_value      json.loads returns json (a list, or one object).
NormOutcomes ==
  { [kind |-> "call_error", is_list |-> FALSE, items |-> <<>>],
    [kind |-> "bad_shape", is_list |-> FALSE, items |-> <<>>],
    [kind |-> "malformed_json", is_list |-> FALSE, items |-> <<>>],
    [kind |-> "json_value", is_list |-> FALSE, items |-> <<Clarity>>],
    [kind |-> "json_value", is_list |-> TRUE, items |-> <<Clarity, Correctness>>] }

\* client.responses.create is called before the try block: its exception
\* leaves the function.  Of a JSON value that is no list, items holds the value
\* and [rubric_json] is items itself.
parse_rubric_to_json(rubric_text, outcome) ==
  IF outcome.kind = "call_error"
  THEN [raised |-> TRUE, exc |-> "APIError", rubric_json |-> <<>>]
  ELSE IF outcome.kind = "json_value"
       THEN [raised |-> FALSE, exc |-> "",
             rubric_json |-> IF ~outcome.is_list THEN <<outcome.items[1]>> ELSE outcome.items]
       ELSE [raised |-> FALSE, exc |-> "", rubric_json |-> FallbackRubric(rubric_text)]

\* The texts the grading oracle returns in the model.
GradeTexts ==
  { <<"x">>,
    <<SCORE, " ", "1", "/", "8", "\n", MARKER, " ", "y", "\n">>,
    <<SCORE, " ", "8", "/", "1", "0", "\n", "x", "\n", SCORE, " ", "1", "5", "/", "2", "0", "\n",
      MARKER, "\n", "y">>,
    <<SCORE, "5", " ", "/", " ", "0", " ", MARKER>>,
    <<SCORE, " ", "2", "/", "2", "x">> }

\* str(response) of a response whose text cannot be extracted.
RESPONSE_REPR == <<"Response(output=[])">>

\* What client.responses.create does in grade_with_rubric_json:
\*   call_error  the call raises;
\*   bad_shape   response.output[0].content[0].text raises: str(response);
\*   text        the text of the response.
GradeOutcomes ==
  { [kind |-> "call_error", text |-> <<>>], [kind |-> "bad_shape", text |-> <<>>] }
  \cup { [kind |-> "text", text |-> t] : t \in GradeTexts }

grade_with_rubric_json(rubric_json, student_text, outcome) ==
  IF outcome.kind = "call_error"
  THEN [raised |-> TRUE, exc |-> "APIError", output_block |-> <<>>]
  ELSE IF outcome.kind = "bad_shape"
       THEN [raised |-> FALSE, exc |-> "", output_block |-> RESPONSE_REPR]
       ELSE [raised |-> FALSE, exc |-> "", output_block |-> outcome.text]

----------------------------------------------------------------------------
(* The score line *)

RECURSIVE Gcd(_, _)
Gcd(a, b) == IF b = 0 THEN a ELSE Gcd(b, a % b)

RECURSIVE IsPow2(_)
IsPow2(n) == n = 1 \/ (n > 1 /\ n % 2 = 0 /\ IsPow2(n \div 2))

\* round((earned / possible) * 100) for possible > 0.  Python's round of a float
\* rounds an exact half to the even integer.  Away from a half the float product
\* rounds as the exact value does.  At an exact half, the product is exact when
\* the quotient is (its reduced denominator is a power of two); otherwise the
\* float product lies on the half or just beside it, and the result is one of
\* the two neighbours.
PyRoundPercent(earned, possible) ==
  LET lo == (100 * earned) \div possible
      twice == 2 * ((100 * earned) % possible)
  IN  IF twice < possible THEN {lo}
      ELSE IF twice > possible THEN {lo + 1}
      ELSE IF IsPow2(possible \div Gcd(earned, possible))
           THEN {IF lo % 2 = 0 THEN lo ELSE lo + 1}
           ELSE {lo, lo + 1}

\* The guard written possible >= 0.
ScoreGuard_NonNegative(possible) == possible >= 0

\* if possible > 0:
ScoreGuard(possible) == possible > 0

ScoreLine(earned, possible, percent) ==
  <<"Your Score: ", ToString(earned), " / ", ToString(possible), " (", ToString(percent), "%)">>

SCORE_NA == <<"Your Score: N/A">>

----------------------------------------------------------------------------
(* Requests and responses *)

Passwords == { <<>>, <<"teacheraccess">>, <<" ", "teacheraccess", "\n">>, <<"guess">> }

RubricTexts == { <<>>, <<" ">>, <<" ", "A", "\n">> }

StudentTexts == { <<>>, <<"w", " ">> }

RubricFiles ==
  { NoFile,
    [present |-> TRUE, filename |-> <<>>, text |-> <<>>, corrupt |-> FALSE],
    [present |-> TRUE, filename |-> <<"r", ".TXT">>, text |-> <<"B", "\n">>, corrupt |-> FALSE],
    [present |-> TRUE, filename |-> <<"r", ".csv">>, text |-> <<>>, corrupt |-> TRUE] }

StudentFiles ==
  { NoFile,
    [present |-> TRUE, filename |-> <<"w", ".py">>, text |-> <<"v">>, corrupt |-> FALSE],
    [present |-> TRUE, filename |-> <<"w", ".csv">>, text |-> <<>>, corrupt |-> TRUE] }

Request(s, endpoint, method, password, rubric_text, student_text, rubric_file, student_file) ==
  [sid |-> s, endpoint |-> endpoint, method |-> method, password |-> password,
   rubric_text |-> rubric_text, student_text |-> student_text,
   rubric_file |-> rubric_file, student_file |-> student_file]

NoRequest == Request("s1", "", "", <<>>, <<>>, <<>>, NoFile, NoFile)

Redirect(target) ==
  [kind |-> "redirect", target |-> target, feedback |-> None, summary_text |-> None,
   error |-> None, rubric_loaded |-> FALSE]

Render(template, feedback, summary_text, error, rubric_loaded) ==
  [kind |-> "render", target |-> template, feedback |-> feedback,
   summary_text |-> summary_text, error |-> error, rubric_loaded |-> rubric_loaded]

NoResponse == [kind |-> "", target |-> "", feedback |-> None, summary_text |-> None,
               error |-> None, rubric_loaded |-> FALSE]

Error(msg, exc) == Some([msg |-> msg, exc |-> exc])

ERR_READING == "Error reading uploaded files: "

ERR_RUBRIC == "Please provide a rubric (either text or file)."

ERR_STUDENT == "Please provide student work (either text or file)."

ERR_GRADING == "Error during AI grading: "

\* One entry of oracle_calls: a call of client.responses.create.
Call(fn, oracle, rubric_text, rubric_json, student_text, raised, result_json, result_text) ==
  [fn |-> fn, oracle |-> oracle, rubric_text |-> rubric_text, rubric_json |-> rubric_json,
   student_text |-> student_text, raised |-> raised,
   result_json |-> result_json, result_text |-> result_text]

\* bool(file_storage) is bool(file_storage.filename)
Uploaded(f) == f.present /\ Truthy(f.filename)

\* Lines 243-258 of grade: the form fields, then the files in the order rubric,
\* student; the first read that raises ends the try block.
Uploads(rq) ==
  LET rubric_text == Strip(rq.rubric_text)
      student_text == Strip(rq.student_text)
      r == read_file_to_text(rq.rubric_file)
      st == read_file_to_text(rq.student_file)
      rubric_text2 == IF Uploaded(rq.rubric_file) THEN r.text ELSE rubric_text
      read1 == IF Uploaded(rq.rubric_file) THEN {"rubric_file"} ELSE {}
  IN  IF Uploaded(rq.rubric_file) /\ r.raised
      THEN [error |-> TRUE, rubric_text |-> rubric_text, student_text |-> student_text,
            read |-> read1]
      ELSE IF Uploaded(rq.student_file) /\ st.raised
           THEN [error |-> TRUE, rubric_text |-> rubric_text2,
                 student_text |-> student_text, read |-> read1 \cup {"student_file"}]
           ELSE [error |-> FALSE, rubric_text |-> rubric_text2,
                 student_text |-> IF Uploaded(rq.student_file) THEN st.text ELSE student_text,
                 read |-> read1 \cup (IF Uploaded(rq.student_file) THEN {"student_file"} ELSE {})]

\* CacheRubric appending the new rubric to the cached one.
CacheRubric_Merged(cached, rubric_text) ==
  IF Truthy(rubric_text)
  THEN Some((IF cached = None THEN <<>> ELSE cached[1]) \o rubric_text)
  ELSE cached

\* if rubric_text: session["rubric_text"] = rubric_text
CacheRubric(cached, rubric_text) ==
  IF Truthy(rubric_text) THEN Some(rubric_text) ELSE cached

\* session.get("rubric_text", "")
CachedText(cached) == IF cached = None THEN <<>> ELSE cached[1]

\* MissingInput testing the student work first.
MissingInput_StudentFirst(rubric_text_cached, student_text) ==
  IF ~Truthy(student_text) THEN ERR_STUDENT
  ELSE IF ~Truthy(rubric_text_cached) THEN ERR_RUBRIC
  ELSE ""

\* MissingInput without the test of the student work.
MissingInput_RubricOnly(rubric_text_cached, student_text) ==
  IF ~Truthy(rubric_text_cached) THEN ERR_RUBRIC ELSE ""

\* Lines 267-270 of grade: the message for a missing input, "" when none is.
MissingInput(rubric_text_cached, student_text) ==
  IF ~Truthy(rubric_text_cached) THEN ERR_RUBRIC
  ELSE IF ~Truthy(student_text) THEN ERR_STUDENT
  ELSE ""

\* password == ACCESS_PASSWORD, of the stripped form field
PasswordOk(password) == Strip(password) = ACCESS_PASSWORD

\* The rubric a request supplies, as the handler reads it, when its rubric
\* file (if any) can be read: the file's text, else the trimmed text field.
\* <<>> when the rubric file cannot be read.
RequestRubric(rq) ==
  IF Uploaded(rq.rubric_file)
  THEN (IF read_file_to_text(rq.rubric_file).raised THEN <<>>
        ELSE read_file_to_text(rq.rubric_file).text)
  ELSE Strip(rq.rubric_text)

\* History of a session: the last non-empty rubric a grading POST supplied
\* (any), and the last one supplied by a POST whose files were all read (ok).
Supply(h, rq) ==
  LET r == RequestRubric(rq)
  IN  [any |-> IF Truthy(r) THEN Some(r) ELSE h.any,
       ok |-> IF Truthy(r) /\ ~Uploads(rq).error THEN Some(r) ELSE h.ok]

----------------------------------------------------------------------------
(* The web application *)

PureIdle ==
  [text |-> <<>>, expected |-> [earned |-> 0, possible |-> 0],
   scores |-> None, summary |-> None, stripped |-> None]

Init ==
  /\ session = [s \in Sessions |-> [is_authenticated |-> FALSE, rubric_text |-> None]]
  /\ req = NoRequest
  /\ resp = NoResponse
  /\ oracle_calls = <<>>
  /\ files_read = {}
  /\ supplied = [s \in Sessions |-> [any |-> None, ok |-> None]]
  /\ pure = PureIdle

\* The end of a request: the session as the handler leaves it, the response,
\* and what the handler did on the way (files read, oracle calls made).
Finish(s, rq, sess, read, calls, response, hist) ==
  /\ session' = [session EXCEPT ![s] = sess]
  /\ req' = rq
  /\ resp' = response
  /\ oracle_calls' = calls
  /\ files_read' = read
  /\ supplied' = [supplied EXCEPT ![s] = hist]
  /\ UNCHANGED pure

\* access_gate, GET: the login page.
access_gate_get(s) ==
  Finish(s, Request(s, "/", "GET", <<>>, <<>>, <<>>, NoFile, NoFile), session[s], {}, <<>>,
         Render("login.html", None, None, None, FALSE), supplied[s])

\* access_gate, POST.
access_gate_post(s) ==
  \E password \in Passwords :
    LET rq == Request(s, "/", "POST", password, <<>>, <<>>, NoFile, NoFile)
    IN  IF PasswordOk(password)
        THEN Finish(s, rq, [session[s] EXCEPT !.is_authenticated = TRUE], {}, <<>>,
                    Redirect("/grade"), supplied[s])
        ELSE Finish(s, rq, session[s], {}, <<>>,
                    Render("login.html", None, None, None, FALSE), supplied[s])

\* The handler without its gate.
Authenticated_Always(s) == TRUE

\* if not session.get("is_authenticated"): redirect
Authenticated(s) == session[s].is_authenticated

\* rubric_loaded = bool(session.get("rubric_text")), before the request's update
RubricLoaded(s) == Truthy(CachedText(session[s].rubric_text))

\* grade, GET.
grade_get(s) ==
  LET rq == Request(s, "/grade", "GET", <<>>, <<>>, <<>>, NoFile, NoFile)
  IN  IF ~Authenticated(s)
      THEN Finish(s, rq, session[s], {}, <<>>, Redirect("/"), supplied[s])
      ELSE Finish(s, rq, session[s], {}, <<>>,
                  Render("index.html", None, None, None, RubricLoaded(s)), supplied[s])

\* The except branch rendering the oracle's raw output as feedback.
ExceptGrading_Partial(feedback, summary_text, exc, rubric_loaded) ==
  Render("index.html", Some(RESPONSE_REPR), summary_text, Error(ERR_GRADING, exc), rubric_loaded)

\* except Exception as e: error = f"Error during AI grading: {e}", with
\* feedback and summary_text as they are when the exception is raised.
ExceptGrading(feedback, summary_text, exc, rubric_loaded) ==
  Render("index.html", feedback, summary_text, Error(ERR_GRADING, exc), rubric_loaded)

\* Lines 277-288 of grade, after both oracle calls returned.
Postprocess(s, rq, sess, read, calls, full_feedback, hist) ==
  LET sc == extract_scores(full_feedback)
      student_summary == extract_student_summary(full_feedback)
      feedback == strip_student_summary(full_feedback)
      Done(score_line) ==
        Finish(s, rq, sess, read, calls,
               Render("index.html", Some(feedback),
                      Some(Strip(score_line \o <<"\n", "\n">> \o student_summary)),
                      None, TRUE),
               hist)
  IN  IF ScoreGuard(sc.possible)
      THEN IF sc.possible = 0
           THEN Finish(s, rq, sess, read, calls,
                       ExceptGrading(None, None, "ZeroDivisionError", RubricLoaded(s)), hist)
           ELSE \E percent \in PyRoundPercent(sc.earned, sc.possible) :
                  Done(ScoreLine(sc.earned, sc.possible, percent))
      ELSE Done(SCORE_NA)

\* Lines 272-290 of grade: the two oracle calls in their try block.
Pipeline(s, rq, sess, read, rubric_text_cached, student_text, hist) ==
  \E no \in NormOutcomes :
    LET pr == parse_rubric_to_json(rubric_text_cached, no)
        c1 == Call("parse_rubric_to_json", no.kind, rubric_text_cached, <<>>, <<>>, pr.raised,
                   pr.rubric_json, <<>>)
    IN  IF pr.raised
        THEN Finish(s, rq, sess, read, <<c1>>,
                    ExceptGrading(None, None, pr.exc, RubricLoaded(s)), hist)
        ELSE \E go \in GradeOutcomes :
               LET gr == grade_with_rubric_json(pr.rubric_json, student_text, go)
                   c2 == Call("grade_with_rubric_json", go.kind, <<>>, pr.rubric_json, student_text,
                              gr.raised, <<>>, gr.output_block)
               IN  IF gr.raised
                   THEN Finish(s, rq, sess, read, <<c1, c2>>,
                               ExceptGrading(None, None, gr.exc, RubricLoaded(s)), hist)
                   ELSE Postprocess(s, rq, sess, read, <<c1, c2>>, gr.output_block, hist)

\* grade, POST.
grade_post(s) ==
  \E rubric_text \in RubricTexts, student_text \in StudentTexts,
     rubric_file \in RubricFiles, student_file \in StudentFiles :
    LET rq == Request(s, "/grade", "POST", <<>>, rubric_text, student_text,
                      rubric_file, student_file)
        up == Uploads(rq)
        sess == [session[s] EXCEPT !.rubric_text = CacheRubric(@, up.rubric_text)]
        cached == CachedText(sess.rubric_text)
        hist == Supply(supplied[s], rq)
        Fail(msg) ==
          Finish(s, rq, sess, up.read, <<>>,
                 Render("index.html", None, None, Error(msg, ""), RubricLoaded(s)), hist)
    IN  IF ~Authenticated(s)
        THEN Finish(s, rq, session[s], {}, <<>>, Redirect("/"), supplied[s])
        ELSE IF up.error
             THEN Finish(s, rq, session[s], up.read, <<>>,
                         Render("index.html", None, None, Error(ERR_READING, "ParserError"),
                                RubricLoaded(s)), hist)
             ELSE IF MissingInput(cached, up.student_text) # ""
                  THEN Fail(MissingInput(cached, up.student_text))
                  ELSE Pipeline(s, rq, sess, up.read, cached, up.student_text, hist)

Next ==
  \E s \in Sessions :
    \/ access_gate_get(s)
    \/ access_gate_post(s)
    \/ grade_get(s)
    \/ grade_post(s)

Spec == Init /\ [][Next]_vars

----------------------------------------------------------------------------
(* The post-processing functions on their own: SpecPure draws a feedback   *)
(* text and applies extract_scores, or the two summary functions, to it.   *)

MaxScores == 2

MaxTextLen == 4

\* The numbers of a score line: the digits written and the integer meant.
EarnedNums == { [digits |-> <<"8">>, val |-> 8], [digits |-> <<"1", "5">>, val |-> 15] }

PossibleNums == { [digits |-> <<"0">>, val |-> 0], [digits |-> <<"0", "2", "0">>, val |-> 20] }

\* The whitespace after the colon and around the slash.
Gaps == { <<>>, <<" ", "\n">> }

ScoreItems == [a : EarnedNums, b : PossibleNums, gap : Gaps]

\* "Score: a/b" as written.
ItemText(it) ==
  <<SCORE>> \o it.gap \o it.a.digits \o it.gap \o <<"/">> \o it.gap \o it.b.digits

\* Text between occurrences: it holds no occurrence and does not start with a
\* digit (which would lengthen the number before it).
Fillers == { <<>>, <<"x", "\n">>, <<SCORE, " ", "3">> }

\* Text before the first occurrence may start with a digit.
LeadFillers == Fillers \cup { <<"7", "/", "2">> }

RECURSIVE ScoreText(_, _, _)
\* items[1] fills[1] items[2] fills[2] ... from index i on
ScoreText(items, fills, i) ==
  IF i > Len(items) THEN <<>>
  ELSE ItemText(items[i]) \o fills[i] \o ScoreText(items, fills, i + 1)

RECURSIVE SumVals(_, _, _)
SumVals(items, which, i) ==
  IF i > Len(items) THEN 0
  ELSE (IF which = "a" THEN items[i].a.val ELSE items[i].b.val) + SumVals(items, which, i + 1)

ScoreInputs ==
  UNION { { [text |-> lead \o ScoreText(items, fills, 1),
             expected |-> [earned |-> SumVals(items, "a", 1),
                           possible |-> SumVals(items, "b", 1)]] :
              lead \in LeadFillers, items \in [1..n -> ScoreItems], fills \in [1..n -> Fillers] } :
          n \in 0..MaxScores }

SummaryAlphabet == { MARKER, " ", "\n", "x" }

SummaryInputs ==
  UNION { { [text |-> t, expected |-> [earned |-> 0, possible |-> 0]] :
              t \in [1..n -> SummaryAlphabet] } : n \in 0..MaxTextLen }

InitPure ==
  /\ session = [s \in Sessions |-> [is_authenticated |-> FALSE, rubric_text |-> None]]
  /\ req = NoRequest
  /\ resp = NoResponse
  /\ oracle_calls = <<>>
  /\ files_read = {}
  /\ supplied = [s \in Sessions |-> [any |-> None, ok |-> None]]
  /\ \E in \in ScoreInputs \cup SummaryInputs :
       pure = [text |-> in.text, expected |-> in.expected,
               scores |-> None, summary |-> None, stripped |-> None]

Fresh == pure.scores = None /\ pure.summary = None /\ pure.stripped = None

\* earned, possible = extract_scores(full_feedback)
call_extract_scores ==
  /\ Fresh
  /\ pure' = [pure EXCEPT !.scores = Some(extract_scores(pure.text))]
  /\ UNCHANGED webvars

\* student_summary = extract_student_summary(full_feedback);
\* feedback = strip_student_summary(full_feedback)
call_summary_split ==
  /\ Fresh
  /\ pure' = [pure EXCEPT !.summary = Some(extract_student_summary(pure.text)),
                          !.stripped = Some(strip_student_summary(pure.text))]
  /\ UNCHANGED webvars

NextPure == call_extract_scores \/ call_summary_split

SpecPure == InitPure /\ [][NextPure]_vars

----------------------------------------------------------------------------
(* Properties *)

\* The request of the state is a POST to /grade.
GradePost(rq) == rq.endpoint = "/grade" /\ rq.method = "POST"

\* C1 as stated: after a grading POST of an authenticated session the cached
\* rubric_text is the request's rubric (its text field, or the content of its
\* rubric file) when that is non-empty and the files were read, and is
\* unchanged otherwise; and the rubric text passed to the normalizer is the most
\* recent non-empty rubric supplied in the session.
C1_AsStated ==
  [][ LET rq == req'
          s == rq.sid
          r == IF Uploaded(rq.rubric_file) THEN RequestRubric(rq) ELSE rq.rubric_text
      IN  (GradePost(rq) /\ session[s].is_authenticated) =>
            /\ session'[s].rubric_text =
                 IF Truthy(r) /\ ~Uploads(rq).error THEN Some(r) ELSE session[s].rubric_text
            /\ \A i \in DOMAIN oracle_calls' :
                 oracle_calls'[i].fn = "parse_rubric_to_json" =>
                   supplied'[s].any = Some(oracle_calls'[i].rubric_text) ]_vars

\* C1, amended: after a grading POST of an authenticated session the cached
\* rubric_text is the request's rubric (its trimmed text field, or the content
\* of its rubric file) when that is non-empty and the files were read without
\* error, and is unchanged otherwise, whatever the request's outcome; and the
\* rubric text passed to the normalizer is the most recent non-empty rubric
\* supplied by a request of the session whose files were read without error.
C1_CacheReplaced ==
  [][ LET rq == req'
          s == rq.sid
          r == RequestRubric(rq)
      IN  (GradePost(rq) /\ session[s].is_authenticated) =>
            /\ session'[s].rubric_text =
                 IF Truthy(r) /\ ~Uploads(rq).error THEN Some(r) ELSE session[s].rubric_text
            /\ \A i \in DOMAIN oracle_calls' :
                 oracle_calls'[i].fn = "parse_rubric_to_json" =>
                   supplied'[s].ok = Some(oracle_calls'[i].rubric_text) ]_vars

\* A grading POST whose text-field rubric was cached trimmed, and which then
\* failed for missing student work.
C1_Witness ==
  /\ GradePost(req) /\ req.rubric_text = <<" ", "A", "\n">> /\ ~Uploaded(req.rubric_file)
  /\ session[req.sid].rubric_text = Some(<<"A">>)
  /\ supplied[req.sid].any = Some(<<"A">>)
  /\ resp.error = Error(ERR_STUDENT, "")

C3_NeverRaises ==
  \A i \in DOMAIN oracle_calls :
    oracle_calls[i].fn = "parse_rubric_to_json" =>
      /\ ~oracle_calls[i].raised
      /\ oracle_calls[i].oracle # "json_value" =>
           /\ Len(oracle_calls[i].result_json) = 1
           /\ oracle_calls[i].result_json[1].criterion = "Overall Rubric"
           /\ oracle_calls[i].result_json[1].points = 100
           /\ oracle_calls[i].result_json[1].requirements =
                <<Take(Strip(oracle_calls[i].rubric_text), 1000)>>
           /\ Len(oracle_calls) = 1 => resp.error = None

\* C4: a grading call that raises gives the "Error during AI grading" error
\* and neither feedback nor summary; in every response an error excludes
\* feedback and summary; and the next request is served.
C4_ErrorShowsNoResult ==
  /\ \A i \in DOMAIN oracle_calls :
       (oracle_calls[i].fn = "grade_with_rubric_json" /\ oracle_calls[i].raised) =>
         /\ resp.error # None /\ resp.error[1].msg = ERR_GRADING
         /\ resp.feedback = None /\ resp.summary_text = None
  /\ resp.error # None => (resp.feedback = None /\ resp.summary_text = None)
  /\ ENABLED grade_get(req.sid)

\* The grading call raised and the response is the grading error.
C4_Witness ==
  /\ Len(oracle_calls) = 2 /\ oracle_calls[2].raised
  /\ resp.error = Error(ERR_GRADING, "APIError")

\* C5 as stated: is_authenticated becomes true only by a POST to the entry
\* endpoint whose password equals the access password, and a request to /grade
\* of an unauthenticated session is redirected to the entry endpoint, reads no
\* file, leaves the cached rubric alone and calls no oracle.
C5_AsStated ==
  [][ /\ \A s \in Sessions :
           (~session[s].is_authenticated /\ session'[s].is_authenticated) =>
             /\ req'.sid = s /\ req'.endpoint = "/" /\ req'.method = "POST"
             /\ req'.password = ACCESS_PASSWORD
      /\ (req'.endpoint = "/grade" /\ ~session[req'.sid].is_authenticated) =>
           /\ resp' = Redirect("/")
           /\ files_read' = {} /\ oracle_calls' = <<>>
           /\ session' = session ]_vars

\* C5, amended: the same, the password being compared after its surrounding
\* whitespace is trimmed.
C5_Gate ==
  [][ /\ \A s \in Sessions :
           (~session[s].is_authenticated /\ session'[s].is_authenticated) =>
             /\ req'.sid = s /\ req'.endpoint = "/" /\ req'.method = "POST"
             /\ Strip(req'.password) = ACCESS_PASSWORD
      /\ (req'.endpoint = "/grade" /\ ~session[req'.sid].is_authenticated) =>
           /\ resp' = Redirect("/")
           /\ files_read' = {} /\ oracle_calls' = <<>>
           /\ session' = session ]_vars

\* A grading POST with both files uploaded, of a session that is not
\* authenticated: redirected, nothing read.
C5_Witness ==
  /\ GradePost(req) /\ Uploaded(req.rubric_file) /\ Uploaded(req.student_file)
  /\ ~session[req.sid].is_authenticated
  /\ resp = Redirect("/") /\ files_read = {}

\* C6: extract_scores of a text holding N occurrences of "Score: a/b", with
\* whitespace after the colon and around the slash and any text between the
\* occurrences, is (the sum of the a, the sum of the b); (0, 0) when N = 0.
C6_ScoresAreSums ==
  pure.scores # None => pure.scores = Some(pure.expected)

\* Two occurrences, one written over several lines, with text before, between
\* and after them: 8/0 and 15/020.
C6_Witness ==
  /\ pure.text = <<"7", "/", "2">>
                 \o <<SCORE, "8", "/", "0">> \o <<SCORE, " ", "3">>
                 \o <<SCORE, " ", "\n", "1", "5", " ", "\n", "/", " ", "\n", "0", "2", "0">>
                 \o <<"x", "\n">>
  /\ pure.scores = Some([earned |-> 23, possible |-> 20])

\* The positions of the marker in t.
MarkerAt(t) == { i \in 1..Len(t) : t[i] = MARKER }

AllWs(u) == \A k \in 1..Len(u) : u[k] \in WS

\* part is whole without a whitespace prefix and a whitespace suffix, and
\* neither starts nor ends with whitespace.
IsTrimOf(part, whole) ==
  /\ \E a \in 0..Len(whole) : \E b \in a..Len(whole) :
        /\ AllWs(SubSeq(whole, 1, a))
        /\ AllWs(SubSeq(whole, b + 1, Len(whole)))
        /\ part = SubSeq(whole, a + 1, b)
  /\ part # <<>> => (part[1] \notin WS /\ part[Len(part)] \notin WS)

\* C7: of a text with exactly one marker, strip_student_summary is the trimmed
\* text before the marker and extract_student_summary the trimmed text after it
\* (so the two, with the marker between them, are the text up to the whitespace
\* trimmed around them); without a marker, extract_student_summary is the
\* fallback sentence and strip_student_summary the trimmed text.
C7_SplitAtMarker ==
  (pure.summary # None /\ pure.stripped # None) =>
    LET t == pure.text
    IN  /\ Cardinality(MarkerAt(t)) = 1 =>
             LET i == CHOOSE i \in MarkerAt(t) : TRUE
             IN  /\ IsTrimOf(pure.stripped[1], SubSeq(t, 1, i - 1))
                 /\ IsTrimOf(pure.summary[1], SubSeq(t, i + 1, Len(t)))
        /\ MarkerAt(t) = {} =>
             /\ pure.summary[1] = FALLBACK_SUMMARY
             /\ IsTrimOf(pure.stripped[1], t)

\* A text with one marker and whitespace around both parts.
C7_Witness ==
  /\ pure.text = <<"x", " ", MARKER, "x">>
  /\ pure.stripped = Some(<<"x">>)
  /\ pure.summary = Some(<<"x">>)

\* The request went through both oracle calls and the grading call returned.
Graded == Len(oracle_calls) = 2 /\ ~oracle_calls[2].raised

\* The tally of the raw feedback of the request.
Tally == extract_scores(oracle_calls[2].result_text)

\* 100 * earned / possible rounded to the nearest integer, a half going up.
HalfUp(earned, possible) == (200 * earned + possible) \div (2 * possible)

\* C8: when possible > 0, the percent of the score line is 100 * earned /
\* possible rounded to the nearest integer, an exact half rounded up.
C8_PercentHalfUp ==
  (Graded /\ Tally.possible > 0) =>
    /\ resp.summary_text # None
    /\ Take(resp.summary_text[1], 7) =
         ScoreLine(Tally.earned, Tally.possible, HalfUp(Tally.earned, Tally.possible))

\* C9: when the summed possible points are 0 the score line of a graded
\* request is "Your Score: N/A" and the request succeeds; no response reports a
\* division by zero.
C9_NoDivisionByZero ==
  /\ (Graded /\ Tally.possible = 0) =>
       /\ resp.error = None
       /\ resp.summary_text # None
       /\ Take(resp.summary_text[1], 1) = SCORE_NA
  /\ resp.error # None => resp.error[1].exc # "ZeroDivisionError"

\* A feedback whose only score line is "Score:5 / 0".
C9_Witness ==
  /\ Graded
  /\ oracle_calls[2].result_text = <<SCORE, "5", " ", "/", " ", "0", " ", MARKER>>
  /\ resp.summary_text = Some(SCORE_NA)
  /\ resp.error = None

\* C10: the oracle is called only in a grading POST whose files were read
\* without error and whose cached rubric and student text are non-empty; such a
\* request makes exactly one normalization call, first, and at most one grading
\* call, after the normalization call returned and on the rubric it returned.
C10_CallOrder ==
  LET ready == /\ GradePost(req) /\ session[req.sid].is_authenticated
               /\ ~Uploads(req).error
               /\ Truthy(CachedText(session[req.sid].rubric_text))
               /\ Truthy(Uploads(req).student_text)
  IN  /\ ready <=> oracle_calls # <<>>
      /\ Len(oracle_calls) <= 2
      /\ oracle_calls # <<>> =>
           /\ oracle_calls[1].fn = "parse_rubric_to_json"
           /\ oracle_calls[1].rubric_text = CachedText(session[req.sid].rubric_text)
      /\ Len(oracle_calls) = 2 =>
           /\ oracle_calls[2].fn = "grade_with_rubric_json"
           /\ ~oracle_calls[1].raised
           /\ oracle_calls[2].rubric_json = oracle_calls[1].result_json
           /\ oracle_calls[2].student_text = Uploads(req).student_text

\* Both calls made, the second on the fallback rubric of the first.
C10_Witness ==
  /\ Len(oracle_calls) = 2
  /\ oracle_calls[1].oracle = "malformed_json"
  /\ oracle_calls[2].rubric_json = FallbackRubric(<<"A">>)
  /\ resp.feedback # None

====
